---- MODULE Spec2Model ----
(***************************************************************************)
(* Model of check_users_library.py (Jellyfin library-access audit/grant).  *)
(*                                                                         *)
(* JSON values are modelled with uniform shapes so that every comparison   *)
(* is between values of one shape:                                         *)
(*   - a list entry is a record [t, v]: t is the JSON type ("str", "int",  *)
(*     "null"), v the decimal / literal text of the value;                 *)
(*   - a list-valued policy field is a record [kind, items]: kind is       *)
(*     "absent" (key missing or null), "list", or "other" (a truthy value  *)
(*     that is not a list);                                                *)
(*   - a scalar policy field is "absent", "true" or "false";               *)
(*   - a policy is a record of the four fields below; the empty dict {}    *)
(*     is the policy whose fields are all absent.                          *)
(***************************************************************************)
EXTENDS Integers, Sequences, FiniteSets, TLC

\* ------------------------------------------------------------------ bounds
\* Number of times the grant command is run in a row against the server.
MaxRuns == 2

\* ------------------------------------------------------- JSON value helpers
S(x) == [t |-> "str", v |-> x]
I(x) == [t |-> "int", v |-> x]

\* Python truthiness of a list entry ("if i" / "if x").
Truthy(e) ==
  \/ e.t = "str" /\ e.v # ""
  \/ e.t = "int" /\ e.v # "0"

\* Python str(x): the result is a str whatever the type of x was.
str(x) == [t |-> "str", v |-> x.v]

Absent == [kind |-> "absent", items |-> <<>>]
Other == [kind |-> "other", items |-> <<>>]
List(s) == [kind |-> "list", items |-> s]

\* Python truthiness of a list-valued field as returned by dict.get().
FieldTruthy(f) ==
  \/ f.kind = "other"
  \/ f.kind = "list" /\ Len(f.items) > 0

\* [f(x) for x in s if keep(x)] for the two comprehensions of the grant loop:
\* keep the truthy entries, stringified, in their original order.
RECURSIVE StrTruthy(_)
StrTruthy(s) ==
  IF s = <<>> THEN <<>>
  ELSE IF Truthy(Head(s)) THEN <<str(Head(s))>> \o StrTruthy(Tail(s))
       ELSE StrTruthy(Tail(s))

Range(s) == {s[k] : k \in 1..Len(s)}

EmptyPolicy ==
  [EnableAllFolders |-> "absent", EnabledFolders |-> Absent,
   EnabledFolderIds |-> Absent, IsAdministrator |-> "absent"]

Pol(all, ef, efi, adm) ==
  [EnableAllFolders |-> all, EnabledFolders |-> ef,
   EnabledFolderIds |-> efi, IsAdministrator |-> adm]

\* ------------------------------------------------------------ grant inputs
\* The resolved target library id (a str) and the user list of GET /Users.
target_id == S("7")
users == <<"u1", "u2">>
UserIds == Range(users)

\* Policies the server may hold before the first run.
PolicySet ==
  { EmptyPolicy,
    Pol("true", List(<<S("A")>>), Absent, "true"),
    Pol("false", List(<<>>), List(<<>>), "true"),
    Pol("false", List(<<S("A")>>), List(<<S("A")>>), "false"),
    Pol("false", List(<<S("A")>>), Absent, "false"),
    Pol("false", Absent, List(<<S("A")>>), "true"),
    Pol("false", List(<<S("A")>>), List(<<S("B")>>), "absent"),
    Pol("false", List(<<S("A"), S(""), S("A")>>), Absent, "false"),
    Pol("false", List(<<I("7")>>), Absent, "true"),
    Pol("false", List(<<I("3")>>), List(<<>>), "false"),
    Pol("false", Other, List(<<S("7")>>), "true"),
    Pol("absent", List(<<S("A"), S("7")>>), Absent, "false") }

\* Outcomes of one GET: the body is returned, the body is empty or of the
\* wrong shape, or the call raises.
GetOutcomes == {"ok", "empty", "fail"}
\* Outcomes of jf.put / jf.post: returns, raises HTTPError with status 405 or
\* 500, or raises another exception (the request never reached the server).
WriteOutcomes == {"ok", "405", "500", "exc"}

VARIABLES
  server,       \* uid -> policy stored on the server
  apply,        \* args.apply
  run,          \* number of the current run of the command
  i,            \* index in users of the next user of the grant loop
  policy,       \* local: policy fetched for the last user processed
  enabled_ids,  \* local: normalized allow-list of the last user processed
  new_policy,   \* local: policy built for the last user needing the grant
  changed, skipped_all, errors, to_update,
  reqs,         \* write requests issued for the last user: <<[method, status, body]>>
  nwrites,      \* number of PUT/POST requests issued in the current run
  misread,      \* number of users of the current run fetched as {} instead of their stored policy
  prev          \* counters of the previous run

VARIABLES
  vf, mf,       \* what the server answers to the two discovery requests
  pc,           \* position in fetch_virtual_folders / main
  idx,          \* index of the next element of the list being iterated
  containers,   \* local: the list being iterated
  folder_map,   \* the registry (mapping inside fetch_virtual_folders)
  gets          \* endpoints requested so far

discOnly == <<vf, mf, idx, containers, gets>>

VARIABLES
  rows,             \* the audit rows built so far
  unknown_ids_all,  \* run-wide set of unresolved ids
  asked,            \* ids looked up through /Items so far
  notice            \* the ids printed by the final diagnostic notice

auditVars == <<rows, unknown_ids_all, asked, notice>>

VARIABLES
  target,      \* args.add_library
  resolution   \* outcome of the resolution: exit code, target_id, listing

resolveVars == <<target, resolution>>

\* Variables of the grant loop only (server, i and policy are shared with
\* the audit loop).
grantOnly ==
  <<apply, run, enabled_ids, new_policy, changed, skipped_all, errors,
    to_update, reqs, nwrites, misread, prev>>

\* ---------------------------------------------------- fetch_user_policy
\* r1 is the outcome of GET /Users/{id}/Policy, r2 of GET /Users/{id}; an
\* empty dict from the first endpoint is falsy and falls through.
fetch_user_policy(stored, r1, r2) ==
  IF r1 = "ok" /\ stored # EmptyPolicy THEN stored
  ELSE IF r2 = "ok" THEN stored
  ELSE EmptyPolicy

\* Lines 263-268: first truthy of the two fields, [] unless a list, then the
\* truthy entries stringified.
NormalizedIds(p) ==
  LET raw == IF FieldTruthy(p.EnabledFolders) THEN p.EnabledFolders
             ELSE IF FieldTruthy(p.EnabledFolderIds) THEN p.EnabledFolderIds
             ELSE List(<<>>)
      lst == IF raw.kind = "list" THEN raw.items ELSE <<>>
  IN StrTruthy(lst)

\* ensure_list_add(d, key, val) applied to the value d.get(key).
ensure_list_add(f, val) ==
  LET cur0 == IF f.kind = "list" THEN f.items ELSE <<>>
      cur == StrTruthy(cur0)
  IN List(IF val \in Range(cur) THEN cur ELSE Append(cur, val))

\* Mutant: only the second key is updated.
NewPolicy_OneKey(p, val) ==
  [p EXCEPT !.EnabledFolderIds = ensure_list_add(p.EnabledFolderIds, val)]

\* Lines 274-287: dict(policy) with the two keys replaced.
NewPolicy(p, val) ==
  [p EXCEPT !.EnabledFolders = ensure_list_add(p.EnabledFolders, val),
            !.EnabledFolderIds = ensure_list_add(p.EnabledFolderIds, val)]

\* bool(policy.get("EnableAllFolders"))
enable_all(p) == p.EnableAllFolders = "true"

\* Mutant: the allow-all test is missing.
Decision_NoAllowAll(p) ==
  IF target_id \in Range(NormalizedIds(p)) THEN "AlreadyHasTarget" ELSE "NeedsGrant"

\* The decision of one loop iteration (lines 258-271).
Decision(p) ==
  IF enable_all(p) THEN "AlreadyHasAll"
  ELSE IF target_id \in Range(NormalizedIds(p)) THEN "AlreadyHasTarget"
  ELSE "NeedsGrant"

\* Number of users of the current run found to have the target already: the
\* users processed that neither were skipped as allow-all nor needed the grant.
NeedsCount == IF apply THEN changed + errors ELSE Len(to_update)
HasCount == (i - 1) - skipped_all - NeedsCount

NoRun == [apply |-> FALSE, needs |-> 0, has |-> 0, errors |-> 0, nwrites |-> 0]

GrantInit ==
  /\ server \in [UserIds -> PolicySet]
  /\ apply \in BOOLEAN
  /\ run = 1
  /\ i = 1
  /\ policy = EmptyPolicy
  /\ enabled_ids = <<>>
  /\ new_policy = EmptyPolicy
  /\ changed = 0 /\ skipped_all = 0 /\ errors = 0
  /\ to_update = <<>>
  /\ reqs = <<>>
  /\ nwrites = 0
  /\ misread = 0
  /\ prev = NoRun

\* The grant loop's own variables when the loop is not what is run.
GrantIdle ==
  /\ apply = FALSE /\ run = 1 /\ enabled_ids = <<>> /\ new_policy = EmptyPolicy
  /\ changed = 0 /\ skipped_all = 0 /\ errors = 0 /\ to_update = <<>>
  /\ reqs = <<>> /\ nwrites = 0 /\ misread = 0 /\ prev = NoRun

\* The second GET is sent only when the first did not return a non-empty
\* dict (lines 175-183); the POST only after a 405 on the PUT (line 305).
SecondGet(stored, r1) ==
  IF r1 = "ok" /\ stored # EmptyPolicy THEN {"unsent"} ELSE GetOutcomes
SecondWrite(o1) == IF o1 = "405" THEN WriteOutcomes ELSE {"unsent"}

\* Lines 256-257: the loop head, common to every iteration.
Fetch(r1, r2) ==
  /\ policy' = fetch_user_policy(server[users[i]], r1, r2)
  /\ misread' = misread + (IF policy' = server[users[i]] THEN 0 ELSE 1)
  /\ i' = i + 1
  /\ UNCHANGED <<apply, run, prev>>
  /\ UNCHANGED <<pc, folder_map, discOnly, auditVars, resolveVars>>

\* Lines 258-261: allow-all users are counted and skipped.
GrantSkipAll ==
  /\ i <= Len(users)
  /\ \E r1 \in GetOutcomes : \E r2 \in SecondGet(server[users[i]], r1) :
    /\ Fetch(r1, r2)
    /\ Decision(policy') = "AlreadyHasAll"
    /\ skipped_all' = skipped_all + 1
    /\ reqs' = <<>>
    /\ UNCHANGED <<server, enabled_ids, new_policy, changed, errors,
                   to_update, nwrites>>

\* Lines 263-271: the target is already in the normalized allow-list.
GrantAlready ==
  /\ i <= Len(users)
  /\ \E r1 \in GetOutcomes : \E r2 \in SecondGet(server[users[i]], r1) :
    /\ Fetch(r1, r2)
    /\ Decision(policy') = "AlreadyHasTarget"
    /\ enabled_ids' = NormalizedIds(policy')
    /\ reqs' = <<>>
    /\ UNCHANGED <<server, new_policy, changed, skipped_all, errors,
                   to_update, nwrites>>

\* Mutant: the write is sent whatever the mode.
GrantDryRun_Writes ==
  /\ i <= Len(users)
  /\ \E r1 \in GetOutcomes : \E r2 \in SecondGet(server[users[i]], r1) :
    /\ Fetch(r1, r2)
    /\ Decision(policy') = "NeedsGrant"
    /\ ~apply
    /\ enabled_ids' = NormalizedIds(policy')
    /\ new_policy' = NewPolicy(policy', target_id)
    /\ to_update' = Append(to_update, users[i])
    /\ reqs' = <<[method |-> "PUT", uid |-> users[i], body |-> new_policy',
                  status |-> "ok"]>>
    /\ nwrites' = nwrites + 1
    /\ server' = [server EXCEPT ![users[i]] = new_policy']
    /\ UNCHANGED <<changed, skipped_all, errors>>

\* Lines 273-290 and 318-319: without --apply the user is only recorded.
GrantDryRun ==
  /\ i <= Len(users)
  /\ \E r1 \in GetOutcomes : \E r2 \in SecondGet(server[users[i]], r1) :
    /\ Fetch(r1, r2)
    /\ Decision(policy') = "NeedsGrant"
    /\ ~apply
    /\ enabled_ids' = NormalizedIds(policy')
    /\ new_policy' = NewPolicy(policy', target_id)
    /\ to_update' = Append(to_update, users[i])
    /\ reqs' = <<>>
    /\ UNCHANGED <<server, changed, skipped_all, errors, nwrites>>

\* Lines 292-313: the requests sent for one user, given the outcome o1 of
\* the PUT and o2 of the POST (sent only after a 405 on the PUT).
WriteRequests(uid, body, o1, o2) ==
  LET put == [method |-> "PUT", uid |-> uid, body |-> body, status |-> o1]
      post == [method |-> "POST", uid |-> uid, body |-> body, status |-> o2]
  IN IF o1 = "405" THEN <<put, post>> ELSE <<put>>

\* Mutant: a POST that succeeds after a 405 is not counted as a grant.
WriteSucceeds_PutOnly(o1, o2) == o1 = "ok"

\* Whether the try block of lines 293-314 reaches "changed += 1".
WriteSucceeds(o1, o2) == o1 = "ok" \/ (o1 = "405" /\ o2 = "ok")

\* Lines 273-317: with --apply the new policy is written back.
GrantApply ==
  /\ i <= Len(users)
  /\ apply
  /\ \E r1 \in GetOutcomes : \E r2 \in SecondGet(server[users[i]], r1) :
     \E o1 \in WriteOutcomes : \E o2 \in SecondWrite(o1) :
    /\ Fetch(r1, r2)
    /\ Decision(policy') = "NeedsGrant"
    /\ enabled_ids' = NormalizedIds(policy')
    /\ new_policy' = NewPolicy(policy', target_id)
    /\ reqs' = WriteRequests(users[i], new_policy', o1, o2)
    /\ nwrites' = nwrites + Len(reqs')
    /\ IF WriteSucceeds(o1, o2)
       THEN /\ server' = [server EXCEPT ![users[i]] = new_policy']
            /\ changed' = changed + 1
            /\ UNCHANGED errors
       ELSE /\ errors' = errors + 1
            /\ UNCHANGED <<server, changed>>
    /\ UNCHANGED <<skipped_all, to_update>>

\* The command is run again, in the same mode, on the same user list; the
\* counters of the run that ended are kept for comparison.
Rerun ==
  /\ i = Len(users) + 1
  /\ run < MaxRuns
  /\ run' = run + 1
  /\ prev' = [apply |-> apply, needs |-> NeedsCount, has |-> HasCount,
              errors |-> errors, nwrites |-> nwrites]
  /\ i' = 1
  /\ changed' = 0 /\ skipped_all' = 0 /\ errors' = 0
  /\ to_update' = <<>>
  /\ reqs' = <<>>
  /\ nwrites' = 0
  /\ misread' = 0
  /\ UNCHANGED <<server, apply, policy, enabled_ids, new_policy>>
  /\ UNCHANGED <<pc, folder_map, discOnly, auditVars, resolveVars>>

\* ================================================== target resolution
\* Strings that are matched character by character (library ids and names,
\* the --add-library argument) are sequences of one-character strings.
UpperToLower ==
  [c \in {"F", "I", "L", "M", "S", "H", "D"} |->
     CASE c = "F" -> "f" [] c = "I" -> "i" [] c = "L" -> "l" [] c = "M" -> "m"
       [] c = "S" -> "s" [] c = "H" -> "h" [] c = "D" -> "d"]

\* str.lower()
lower(w) ==
  [k \in 1..Len(w) |-> IF w[k] \in DOMAIN UpperToLower THEN UpperToLower[w[k]] ELSE w[k]]

\* Python "a in b" on two strings.
Contains(a, b) ==
  \E k \in 0..(Len(b) - Len(a)) : SubSeq(b, k + 1, k + Len(a)) = a

\* A registry (the dict folder_map) is a sequence of entries [id, name] with
\* distinct ids, in insertion order; a name is a JSON value [t, v].
Keys(m) == {m[k].id : k \in 1..Len(m)}
Get(m, id) == (CHOOSE k \in 1..Len(m) : m[k].id = id)
NameOf(m, id) == m[Get(m, id)].name

\* [fid for fid, name in folder_map.items() if isinstance(name, str) and ok(name)]
RECURSIVE MatchIds(_, _, _)
MatchIds(m, t, exact) ==
  IF m = <<>> THEN <<>>
  ELSE LET e == Head(m)
           hit == /\ e.name.t = "str"
                  /\ IF exact THEN lower(e.name.v) = lower(t)
                     ELSE Contains(lower(t), lower(e.name.v))
       IN (IF hit THEN <<e.id>> ELSE <<>>) \o MatchIds(Tail(m), t, exact)

NoId == <<>>

\* Lines 218-247 for one list of matches: one match resolves, several exit
\* with code 4 after listing them.
FromMatches(ms, tiers) ==
  IF Len(ms) = 1
  THEN [exit |-> 0, target_id |-> ms[1], listed |-> <<>>, tiers |-> tiers]
  ELSE [exit |-> 4, target_id |-> NoId, listed |-> ms, tiers |-> tiers]

\* Mutant: names are matched before ids.
ResolveTarget_NamesFirst(m, t) ==
  LET matches == MatchIds(m, t, TRUE)
  IN IF Len(matches) >= 1 THEN FromMatches(matches, {1, 2})
     ELSE IF t \in Keys(m)
          THEN [exit |-> 0, target_id |-> t, listed |-> <<>>, tiers |-> {1}]
          ELSE LET contains == MatchIds(m, t, FALSE)
               IN IF Len(contains) >= 1 THEN FromMatches(contains, {1, 2, 3})
                  ELSE [exit |-> 5, target_id |-> NoId, listed |-> <<>>,
                        tiers |-> {1, 2, 3}]

\* Lines 214-247: the outcome of resolving the argument against the
\* registry; tiers are the match tiers that were evaluated.
ResolveTarget(m, t) ==
  IF t \in Keys(m)
  THEN [exit |-> 0, target_id |-> t, listed |-> <<>>, tiers |-> {1}]
  ELSE LET matches == MatchIds(m, t, TRUE)
       IN IF Len(matches) >= 1 THEN FromMatches(matches, {1, 2})
          ELSE LET contains == MatchIds(m, t, FALSE)
               IN IF Len(contains) >= 1 THEN FromMatches(contains, {1, 2, 3})
                  ELSE [exit |-> 5, target_id |-> NoId, listed |-> <<>>,
                        tiers |-> {1, 2, 3}]

\* ==================================================== library discovery
\* In discovery and audit an id or a name is a JSON value [t, v] (S, I, Nul),
\* and a registry is a sequence of entries [id, name] in insertion order.
Nul == [t |-> "null", v |-> ""]

\* One element of a folder list: a dict with the keys read by the code, or
\* something that is not a dict (it.get then raises).
Rec(itemId, id, name, itemIds) ==
  [dict |-> TRUE, ItemId |-> itemId, Id |-> id, Name |-> name, ItemIds |-> itemIds]
NotADict ==
  [dict |-> FALSE, ItemId |-> Nul, Id |-> Nul, Name |-> Nul, ItemIds |-> <<>>]

\* mapping[k] = v on a dict: replace in place, or insert at the end.
Put(m, id, name) ==
  IF id \in Keys(m)
  THEN [m EXCEPT ![Get(m, id)] = [id |-> id, name |-> name]]
  ELSE Append(m, [id |-> id, name |-> name])

\* Lines 130-132: the nested ItemIds only fill ids that are not mapped yet.
RECURSIVE AddNested(_, _, _)
AddNested(m, iids, name) ==
  IF iids = <<>> THEN m
  ELSE LET iid == Head(iids)
       IN AddNested(IF Truthy(iid) /\ iid \notin Keys(m) THEN Put(m, iid, name) ELSE m,
                    Tail(iids), name)

\* Lines 120-132: one record of the virtual-folders list.
AddFolder(m, it) ==
  LET item_id == IF Truthy(it.ItemId) THEN it.ItemId ELSE it.Id
      name == it.Name
      m1 == IF Truthy(item_id) /\ Truthy(name) THEN Put(m, item_id, name) ELSE m
  IN IF Truthy(name) THEN AddNested(m1, it.ItemIds, name) ELSE m1

\* Lines 145-148 (and 88-91): one item of an {"Items": [...]} response.
AddItem(m, it) ==
  IF Truthy(it.Id) /\ Truthy(it.Name) THEN Put(m, it.Id, it.Name) ELSE m

\* A response to GET /Library/VirtualFolders: the call raises, or returns a
\* list, or a dict with some of the three wrapping keys (<<>> when a key is
\* missing or empty), or another JSON value.
VFList(recs) ==
  [shape |-> "list", list |-> recs, Items |-> <<>>, VirtualFolders |-> <<>>, ItemsList |-> <<>>]
VFDict(a, b, c) ==
  [shape |-> "dict", list |-> <<>>, Items |-> a, VirtualFolders |-> b, ItemsList |-> c]
VFFail == [VFList(<<>>) EXCEPT !.shape = "fail"]
VFOther == [VFList(<<>>) EXCEPT !.shape = "other"]

\* Lines 113-118: the list to iterate, <<>> standing for "not a list".
Containers(r) ==
  IF r.shape = "list" THEN r.list
  ELSE IF r.shape = "dict"
       THEN IF r.Items # <<>> THEN r.Items
            ELSE IF r.VirtualFolders # <<>> THEN r.VirtualFolders
            ELSE r.ItemsList
       ELSE <<>>

\* Mutant: the fallback always runs.
NeedsFallback_Always(m) == TRUE

\* Line 137: the fallback runs when the first source left the mapping empty.
NeedsFallback(m) == m = <<>>

\* Bounds of the discovery inputs: records per virtual-folders response and
\* items per media-folders response.
MaxRecords == 2
MaxItems == 2

A == S("a")
B == S("b")
C == S("c")
X == S("X")
Y == S("Y")
Z == S("Z")

RecordSet ==
  { Rec(A, Nul, X, <<>>),
    Rec(B, Nul, Y, <<>>),
    Rec(Nul, A, Y, <<>>),
    Rec(C, Nul, X, <<A, B>>),
    Rec(Nul, Nul, Z, <<S(""), B>>),
    Rec(A, Nul, Nul, <<B>>),
    NotADict }

ItemSet ==
  { Rec(Nul, A, X, <<>>), Rec(Nul, A, Z, <<>>), Rec(Nul, B, Y, <<>>),
    Rec(Nul, Nul, Y, <<>>), NotADict }

SeqsUpTo(set, n) == UNION {[1..k -> set] : k \in 0..n}

VFResponses ==
  {VFFail, VFOther}
    \cup {VFList(r) : r \in SeqsUpTo(RecordSet, MaxRecords)}
    \cup {VFDict(r, <<>>, <<>>) : r \in SeqsUpTo(RecordSet, 1)}
    \cup {VFDict(<<>>, r, <<Rec(B, Nul, Y, <<>>)>>) : r \in SeqsUpTo(RecordSet, 1)}

\* A response to GET /Library/MediaFolders (or /Items): the call raises, or
\* returns {"Items": list}, or something without an Items list.
MFResponses ==
  {[shape |-> "fail", Items |-> <<>>], [shape |-> "other", Items |-> <<>>]}
    \cup {[shape |-> "dict", Items |-> r] : r \in SeqsUpTo(ItemSet, MaxItems)}


DiscIdle ==
  /\ vf = VFFail /\ mf = [shape |-> "fail", Items |-> <<>>]
  /\ idx = 0 /\ containers = <<>> /\ gets = {}

DiscInit ==
  /\ vf \in VFResponses
  /\ mf \in MFResponses
  /\ pc = "vf" /\ idx = 0 /\ containers = <<>> /\ folder_map = <<>>
  /\ gets = {}

\* Lines 108-118: the first request; nothing to iterate when it raised or
\* did not yield a list.
VFStart ==
  /\ pc = "vf"
  /\ gets' = gets \cup {"/Library/VirtualFolders"}
  /\ containers' = Containers(vf)
  /\ idx' = 1
  /\ pc' = IF vf.shape \in {"list", "dict"} /\ containers' # <<>> THEN "vfloop" ELSE "vfdone"
  /\ UNCHANGED <<vf, mf, folder_map>>
  /\ UNCHANGED <<server, i, policy, grantOnly, auditVars, resolveVars>>

\* Lines 119-132: one iteration; an element that is not a dict raises and
\* the except clause of line 133 ends the first source.
VFRecord ==
  /\ pc = "vfloop"
  /\ LET it == containers[idx]
     IN IF it.dict
        THEN /\ folder_map' = AddFolder(folder_map, it)
             /\ idx' = idx + 1
             /\ pc' = IF idx = Len(containers) THEN "vfdone" ELSE "vfloop"
        ELSE /\ pc' = "vfdone"
             /\ UNCHANGED <<folder_map, idx>>
  /\ UNCHANGED <<vf, mf, containers, gets>>
  /\ UNCHANGED <<server, i, policy, grantOnly, auditVars, resolveVars>>

\* Lines 137-143: the fallback request.
MFStart ==
  /\ pc = "vfdone"
  /\ NeedsFallback(folder_map)
  /\ gets' = gets \cup {"/Library/MediaFolders"}
  /\ containers' = IF mf.shape = "dict" THEN mf.Items ELSE <<>>
  /\ idx' = 1
  /\ pc' = IF containers' # <<>> THEN "mfloop" ELSE "done"
  /\ UNCHANGED <<vf, mf, folder_map>>
  /\ UNCHANGED <<server, i, policy, grantOnly, auditVars, resolveVars>>

\* Lines 144-150: one item of the fallback response.
MFItem ==
  /\ pc = "mfloop"
  /\ LET it == containers[idx]
     IN IF it.dict
        THEN /\ folder_map' = AddItem(folder_map, it)
             /\ idx' = idx + 1
             /\ pc' = IF idx = Len(containers) THEN "done" ELSE "mfloop"
        ELSE /\ pc' = "done"
             /\ UNCHANGED <<folder_map, idx>>
  /\ UNCHANGED <<vf, mf, containers, gets>>
  /\ UNCHANGED <<server, i, policy, grantOnly, auditVars, resolveVars>>

\* Lines 137 and 152: the first source yielded entries, the mapping is
\* returned as it is.
ReturnMapping ==
  /\ pc = "vfdone"
  /\ ~NeedsFallback(folder_map)
  /\ pc' = "done"
  /\ UNCHANGED <<vf, mf, idx, containers, folder_map, gets>>
  /\ UNCHANGED <<server, i, policy, grantOnly, auditVars, resolveVars>>

\* ================================================================ audit
\* Line 79.
chunksize == 50

\* Lines 87-91: the items of one /Items response, in order; an item that is
\* not a dict raises and the rest of the batch is lost (line 92).
RECURSIVE AddItems(_, _)
AddItems(m, items) ==
  IF items = <<>> \/ ~Head(items).dict THEN m
  ELSE AddItems(AddItem(m, Head(items)), Tail(items))

\* Lines 80-94: the batches in turn, each with its own response.
RECURSIVE ApplyBatches(_, _)
ApplyBatches(known, resps) ==
  IF resps = <<>> THEN known
  ELSE ApplyBatches(IF Head(resps).shape = "dict"
                    THEN AddItems(known, Head(resps).Items) ELSE known,
                    Tail(resps))

\* Line 80: number of /Items requests for n missing ids.
BatchCount(n) == (n + chunksize - 1) \div chunksize

\* Line 75.
Missing(ids, known) == {x \in ids : Truthy(x) /\ x \notin Keys(known)}

\* widen_mapping_with_items_api(jf, ids, known), given the responses.
widen_mapping_with_items_api(ids, known, resps) ==
  IF Missing(ids, known) = {} THEN known ELSE ApplyBatches(known, resps)

\* Lines 335-339: the raw allow-list of the audit loop.
AuditEnabledIds(p) ==
  LET raw == IF FieldTruthy(p.EnabledFolders) THEN p.EnabledFolders
             ELSE IF FieldTruthy(p.EnabledFolderIds) THEN p.EnabledFolderIds
             ELSE List(<<>>)
  IN IF raw.kind = "list" THEN raw.items ELSE <<>>

\* Lines 342-348.
FolderIdsForUser(p, m) ==
  IF enable_all(p) THEN Keys(m)
  ELSE {fid \in Range(AuditEnabledIds(p)) : fid.t = "str" /\ fid.v # ""}

RegistrySet ==
  { <<>>,
    <<[id |-> S("A"), name |-> S("Films")]>>,
    <<[id |-> S("A"), name |-> S("Films")], [id |-> S("B"), name |-> S("Movies")]>> }

WidenItemSet ==
  { Rec(Nul, S("B"), S("Movies"), <<>>), Rec(Nul, S("7"), S("Kids"), <<>>),
    Rec(Nul, S("A"), S("Renamed"), <<>>), NotADict }

WidenResponses ==
  {[shape |-> "fail", Items |-> <<>>], [shape |-> "other", Items |-> <<>>]}
    \cup {[shape |-> "dict", Items |-> r] : r \in SeqsUpTo(WidenItemSet, MaxItems)}


AuditIdle == rows = <<>> /\ unknown_ids_all = {} /\ asked = {} /\ notice = {}

\* Lines 332-371: one iteration of the audit loop.
AuditUser ==
  /\ pc = "audit"
  /\ i <= Len(users)
  /\ \E r1 \in GetOutcomes : \E r2 \in SecondGet(server[users[i]], r1) :
     LET p == fetch_user_policy(server[users[i]], r1, r2)
         folder_ids_for_user == FolderIdsForUser(p, folder_map)
         known_ids == folder_ids_for_user \cap Keys(folder_map)
         unknown_ids == folder_ids_for_user \ Keys(folder_map)
         n == BatchCount(Cardinality(Missing(unknown_ids, folder_map)))
     IN \E resps \in [1..n -> WidenResponses] :
          /\ policy' = p
          /\ folder_map' = IF unknown_ids # {}
                           THEN widen_mapping_with_items_api(unknown_ids, folder_map, resps)
                           ELSE folder_map
          /\ asked' = asked \cup Missing(unknown_ids, folder_map)
          /\ unknown_ids_all' = unknown_ids_all \cup (unknown_ids \ Keys(folder_map'))
          /\ rows' = Append(rows,
               [User |-> users[i],
                Mode |-> IF enable_all(p) THEN "ALL" ELSE "CUSTOM",
                Libraries |-> {NameOf(folder_map, f) : f \in known_ids}
                   \cup {NameOf(folder_map', f) : f \in unknown_ids \cap Keys(folder_map')}])
  /\ i' = i + 1
  /\ UNCHANGED <<server, pc, notice>>
  /\ UNCHANGED <<grantOnly, discOnly, resolveVars>>

\* Lines 385-389: the final notice lists the unresolved ids.
AuditReport ==
  /\ pc = "audit"
  /\ i = Len(users) + 1
  /\ notice' = unknown_ids_all
  /\ pc' = "reported"
  /\ UNCHANGED <<server, i, policy, folder_map, rows, unknown_ids_all, asked>>
  /\ UNCHANGED <<grantOnly, discOnly, resolveVars>>

\* ============================================================ resolution

Unresolved == [exit |-> 0, target_id |-> NoId, listed |-> <<>>, tiers |-> {}]
ResolveIdle == target = <<>> /\ resolution = Unresolved

W(n) ==
  CASE n = "Films" -> <<"F", "i", "l", "m", "s">>
    [] n = "FILMS" -> <<"F", "I", "L", "M", "S">>
    [] n = "film" -> <<"f", "i", "l", "m">>
    [] n = "Movies" -> <<"M", "o", "v", "i", "e", "s">>
    [] n = "Films HD" -> <<"F", "i", "l", "m", "s", " ", "H", "D">>
    [] n = "hd" -> <<"h", "d">>
    [] n = "m" -> <<"m">>
    [] n = "x" -> <<"x">>
    [] n = "1" -> <<"1">>
    [] n = "2" -> <<"2">>
    [] n = "3" -> <<"3">>

\* Number of libraries of a registry.
MaxLibs == 3

LibIds == {W("1"), W("2"), W("3")}
LibNames ==
  {S(W("Films")), S(W("FILMS")), S(W("Movies")), S(W("Films HD")), S(W("2")), I(W("2"))}
Targets ==
  {W("Films"), W("film"), W("Movies"), W("hd"), W("m"), W("x"), W("1"), W("2"), W("3")}

\* The registry of the specification's example.
ExampleRegistry ==
  << [id |-> W("1"), name |-> S(W("Films"))],
     [id |-> W("2"), name |-> S(W("Movies"))],
     [id |-> W("3"), name |-> S(W("Films HD"))] >>

Registries ==
  {m \in UNION {[1..k -> [id : LibIds, name : LibNames]] : k \in 0..MaxLibs} :
     \A a, b \in 1..Len(m) : a < b => m[a].id # m[b].id }

\* Lines 214-249: the argument is resolved, or the program exits.
Resolve ==
  /\ pc = "resolve"
  /\ resolution' = ResolveTarget(folder_map, target)
  /\ pc' = IF resolution'.exit = 0 THEN "resolved" ELSE "exit"
  /\ UNCHANGED <<target, folder_map, server, i, policy, grantOnly, discOnly, auditVars>>

\* ======================================================== specifications
vars ==
  <<server, i, policy, pc, folder_map, grantOnly, discOnly, auditVars, resolveVars>>

\* The grant loop, run MaxRuns times against a server holding any policies.
Init ==
  /\ GrantInit
  /\ pc = "grant" /\ folder_map = <<>>
  /\ DiscIdle /\ AuditIdle /\ ResolveIdle

Next == GrantSkipAll \/ GrantAlready \/ GrantDryRun \/ GrantApply \/ Rerun

Spec == Init /\ [][Next]_vars

\* Target resolution, for any registry and argument.
ResolveInit ==
  /\ folder_map \in Registries \cup {ExampleRegistry}
  /\ target \in Targets
  /\ resolution = Unresolved
  /\ pc = "resolve"
  /\ server = [u \in UserIds |-> EmptyPolicy] /\ i = 1 /\ policy = EmptyPolicy
  /\ GrantIdle /\ DiscIdle /\ AuditIdle

SpecResolve == ResolveInit /\ [][Resolve]_vars

\* Library discovery, for any answers of the two endpoints.
DiscoverInit ==
  /\ DiscInit
  /\ server = [u \in UserIds |-> EmptyPolicy] /\ i = 1 /\ policy = EmptyPolicy
  /\ GrantIdle /\ AuditIdle /\ ResolveIdle

DiscoverNext == VFStart \/ VFRecord \/ MFStart \/ MFItem \/ ReturnMapping

SpecDiscover == DiscoverInit /\ [][DiscoverNext]_vars

\* The audit loop, from any registry and any stored policies.
AuditInit ==
  /\ folder_map \in RegistrySet
  /\ server \in [UserIds -> PolicySet]
  /\ i = 1 /\ policy = EmptyPolicy
  /\ pc = "audit"
  /\ AuditIdle /\ GrantIdle /\ DiscIdle /\ ResolveIdle

AuditNext == AuditUser \/ AuditReport

SpecAudit == AuditInit /\ [][AuditNext]_vars

\* ===================================================== claims: grant loop
GrantStep == GrantSkipAll \/ GrantAlready \/ GrantDryRun \/ GrantApply
RunEnded == i = Len(users) + 1
Stepped == i' = i + 1

\* The list without its repeated entries, first occurrences kept in order.
RECURSIVE Dedup(_)
Dedup(s) ==
  IF s = <<>> THEN <<>>
  ELSE LET r == Dedup(SubSeq(s, 1, Len(s) - 1))
       IN IF s[Len(s)] \in Range(r) THEN r ELSE Append(r, s[Len(s)])

C2_DryRunNoWrites ==
  [][~apply =>
       /\ server' = server /\ nwrites' = 0 /\ reqs' = <<>>
       /\ changed' = 0 /\ errors' = 0
       /\ Stepped =>
            to_update' = IF Decision(policy') = "NeedsGrant"
                         THEN Append(to_update, users[i]) ELSE to_update]_vars

C2_Witness ==
  /\ ~apply /\ RunEnded /\ Len(to_update) = 2 /\ nwrites = 0
  /\ misread = 1

\* C3: no step changes, for any user, a stored policy field other than the
\* two allow-list fields.
C3_OtherFieldsKept ==
  [][\A u \in UserIds :
       /\ server'[u].EnableAllFolders = server[u].EnableAllFolders
       /\ server'[u].IsAdministrator = server[u].IsAdministrator]_vars

\* C4: a step whose fetched policy is allow-all adds one to the skipped
\* count and nothing else: no request, no stored change, no would-grant
\* entry, no grant, no error.
C4_AllowAllNeverGranted ==
  [][(Stepped /\ enable_all(policy')) =>
       /\ skipped_all' = skipped_all + 1
       /\ reqs' = <<>> /\ nwrites' = nwrites /\ server' = server
       /\ to_update' = to_update /\ changed' = changed
       /\ errors' = errors]_vars

C4_Witness ==
  /\ i > 1 /\ apply /\ enable_all(policy) /\ skipped_all >= 1
  /\ target_id \notin Range(NormalizedIds(policy))

\* C5: in an apply run, a step for a user needing the grant sends one PUT,
\* then at most one POST with the same path and body and only after a 405
\* on the PUT; it adds one to the grants exactly when the PUT succeeded or
\* the PUT got 405 and the POST succeeded, and one to the errors otherwise;
\* the loop moves on to the next user in both cases, and a next user, when
\* there is one, can always be processed.
C5_Granted(r) ==
  r[1].status = "ok" \/ (Len(r) = 2 /\ r[1].status = "405" /\ r[2].status = "ok")

C5_WriteOutcome ==
  /\ [][(apply /\ Stepped /\ Decision(policy') = "NeedsGrant") =>
          /\ Len(reqs') \in {1, 2}
          /\ reqs'[1].method = "PUT" /\ reqs'[1].uid = users[i]
          /\ Len(reqs') = 2 =>
               /\ reqs'[1].status = "405"
               /\ reqs'[2] = [reqs'[1] EXCEPT !.method = "POST",
                                               !.status = reqs'[2].status]
          /\ nwrites' = nwrites + Len(reqs')
          /\ IF C5_Granted(reqs')
             THEN changed' = changed + 1 /\ errors' = errors
             ELSE changed' = changed /\ errors' = errors + 1]_vars
  /\ [](i <= Len(users) => ENABLED GrantStep)

C5_Witness ==
  /\ apply /\ RunEnded /\ errors = 1 /\ changed = 1
  /\ Len(reqs) = 2 /\ reqs[2].status = "ok"

\* C9: the policy built for a user needing the grant holds, in both
\* EnabledFolders and EnabledFolderIds, the normalized allow-list without
\* duplicates followed by the target id.
C9_BothFieldsSame ==
  (i > 1 /\ Decision(policy) = "NeedsGrant") =>
    LET want == List(Append(Dedup(NormalizedIds(policy)), target_id))
    IN new_policy.EnabledFolders = want /\ new_policy.EnabledFolderIds = want

\* ================================================ claims: resolution
\* The ids whose name equals the argument, or contains it, ignoring case.
ExactIds ==
  {folder_map[k].id : k \in {j \in 1..Len(folder_map) :
     folder_map[j].name.t = "str" /\ lower(folder_map[j].name.v) = lower(target)}}
PartIds ==
  {folder_map[k].id : k \in {j \in 1..Len(folder_map) :
     folder_map[j].name.t = "str" /\ Contains(lower(target), lower(folder_map[j].name.v))}}

\* One tier's verdict: the only match, or exit 4 listing every match.
TierVerdict(ms, tiers) ==
  /\ resolution.tiers = tiers
  /\ IF Cardinality(ms) = 1
     THEN resolution.exit = 0 /\ resolution.target_id \in ms
     ELSE /\ resolution.exit = 4 /\ resolution.target_id = NoId
          /\ Range(resolution.listed) = ms /\ Len(resolution.listed) = Cardinality(ms)

\* C6: the argument resolves to itself when it is a registry key, without
\* looking at names; else through the names equal to it ignoring case, one
\* match resolving and several being ambiguous, without looking at
\* substrings; else the same through the names containing it; else it is
\* not found. On the example registry "Films" gives "1", "film" is ambiguous
\* over "1" and "3", and "2" gives "2".
C6_TieredResolution ==
  pc # "resolve" =>
    /\ IF target \in Keys(folder_map)
       THEN resolution.exit = 0 /\ resolution.target_id = target
            /\ resolution.tiers = {1}
       ELSE IF ExactIds # {} THEN TierVerdict(ExactIds, {1, 2})
       ELSE IF PartIds # {} THEN TierVerdict(PartIds, {1, 2, 3})
       ELSE resolution.exit = 5 /\ resolution.target_id = NoId
    /\ folder_map = ExampleRegistry =>
         /\ target = W("Films") => resolution.exit = 0 /\ resolution.target_id = W("1")
         /\ target = W("film") =>
              resolution.exit = 4 /\ Range(resolution.listed) = {W("1"), W("3")}
         /\ target = W("2") => resolution.exit = 0 /\ resolution.target_id = W("2")

C6_Witness ==
  /\ pc = "exit" /\ folder_map = ExampleRegistry /\ target = W("film")
  /\ resolution.listed = <<W("1"), W("3")>>

\* ================================================= claims: discovery
\* The records of the first response that the loop reaches: those before
\* the first element that is not a dict.
Reached ==
  LET c == Containers(vf)
      bad == {k \in 1..Len(c) : ~c[k].dict}
  IN IF vf.shape \notin {"list", "dict"} THEN <<>>
     ELSE SubSeq(c, 1, IF bad = {} THEN Len(c)
                       ELSE (CHOOSE k \in bad : \A j \in bad : k <= j) - 1)

RecId(r) == IF Truthy(r.ItemId) THEN r.ItemId ELSE r.Id
Own(r, id) == RecId(r) = id /\ Truthy(id) /\ Truthy(r.Name)
Nested(r, id) == id \in Range(r.ItemIds) /\ Truthy(id) /\ Truthy(r.Name)

\* What the first source maps an id to: the name of the last record having
\* it as its own id, else of the first record nesting it.
ExpectedVF ==
  LET c == Reached
      ids == {id \in UNION {{RecId(c[k])} \cup Range(c[k].ItemIds) : k \in 1..Len(c)} :
                \E k \in 1..Len(c) : Own(c[k], id) \/ Nested(c[k], id)}
      own(id) == {k \in 1..Len(c) : Own(c[k], id)}
      nest(id) == {k \in 1..Len(c) : Nested(c[k], id)}
      rec(id) == IF own(id) # {}
                 THEN CHOOSE k \in own(id) : \A j \in own(id) : j <= k
                 ELSE CHOOSE k \in nest(id) : \A j \in nest(id) : k <= j
  IN {[id |-> id, name |-> c[rec(id)].Name] : id \in ids}

\* C7: the media-folders endpoint is requested only if the first source
\* yields no entry, and is requested then; when the first source yields
\* entries the registry returned holds exactly those entries.
C7_FallbackOnlyWhenEmpty ==
  /\ "/Library/MediaFolders" \in gets => ExpectedVF = {}
  /\ pc = "done" =>
       /\ ExpectedVF = {} => "/Library/MediaFolders" \in gets
       /\ ExpectedVF # {} =>
            Range(folder_map) = ExpectedVF /\ Len(folder_map) = Cardinality(ExpectedVF)

C7_Witness ==
  /\ pc = "done" /\ Len(folder_map) = 3 /\ "/Library/MediaFolders" \notin gets
  /\ mf.shape = "dict" /\ Len(mf.Items) = 2 /\ mf.Items[1].dict

\* C10: no step removes an entry of the registry or changes the name an id
\* is mapped to.
C10_AppendOnly ==
  [][\A k \in 1..Len(folder_map) :
       \E j \in 1..Len(folder_map') : folder_map'[j] = folder_map[k]]_vars

\* ===================================================== claims: audit
\* The ids of the allow-list read by the audit loop, normalized as in
\* the grant loop (falsy entries dropped, the others stringified).
AllowListIds(p) == Range(StrTruthy(AuditEnabledIds(p)))

\* The id's name, as the registry held it before or after the step, is in
\* the row just built.
NamedInRow(id) ==
  LET libs == rows'[Len(rows')].Libraries
  IN \/ id \in Keys(folder_map') /\ NameOf(folder_map', id) \in libs
     \/ id \in Keys(folder_map) /\ NameOf(folder_map, id) \in libs

\* C8: after the row of a user who is not allow-all is built, every id of
\* the user's allow-list is named in the row or is in the run-wide
\* unresolved set; an unresolved id has been looked up through /Items; the
\* final notice prints the unresolved set.
C8_AllIdsAccounted ==
  [][/\ (i' = i + 1 /\ ~enable_all(policy')) =>
          \A id \in AllowListIds(policy') :
             NamedInRow(id) \/ id \in unknown_ids_all'
     /\ unknown_ids_all' \subseteq asked'
     /\ pc' = "reported" => notice' = unknown_ids_all']_vars

\* The same, for the entries of the allow-list that are strings.
C8_StringIdsAccounted ==
  [][/\ (i' = i + 1 /\ ~enable_all(policy')) =>
          \A id \in {e \in Range(AuditEnabledIds(policy')) : e.t = "str" /\ e.v # ""} :
             NamedInRow(id) \/ id \in unknown_ids_all'
     /\ unknown_ids_all' \subseteq asked'
     /\ pc' = "reported" => notice' = unknown_ids_all']_vars

====
